---- MODULE Spec2Model ----
(***************************************************************************)
(* Model of src/src/jswrap_serial.c: the Serial class of the interpreter.  *)
(*                                                                         *)
(* One Serial object (`parent`) is modelled.  It is either backed by a     *)
(* hardware USART (DEVICE_IS_USART) or it is a software port that encodes  *)
(* frames as timed pin outputs.  setup() persists the baud rate and the    *)
(* raw options object on the object; print/println/write read them back.   *)
(*                                                                         *)
(* Time is counted in system ticks (JsSysTime).  JavaScript values are     *)
(* tagged records.  A C `int` is IntBits wide, two's complement.           *)
(***************************************************************************)
EXTENDS Integers, Sequences, FiniteSets, TLC

VARIABLES
  isUsart,      \* DEVICE_IS_USART(jsiGetDeviceFromClass(parent))
  devBaud,      \* child USART_BAUDRATE_NAME of parent
  devOptions,   \* child DEVICE_OPTIONS_NAME of parent
  usartInf,     \* last JshUSARTInfo handed to jshUSARTSetup
  now,          \* jshGetSystemTime()
  lastSetupOk,  \* history: the most recent setup() raised nothing
  call,         \* the most recent call: operation, arguments and, for
                \* setup(), what the object held before it
  raised,       \* errors raised (jsExceptionHere) by the most recent call
  callTime,     \* system time read by the most recent call, NoTime if none
  pinOut,       \* jshPinOutput calls of the most recent call, in order,
                \* each with the number of jstPinOutputAtTime calls before it
  sched,        \* jstPinOutputAtTime calls of the most recent call, in order
  hwTx,         \* jshTransmit calls of the most recent call, in order
  frames,       \* per callback invocation of the software sink: cursor before
                \* and after, and the range of sched it submitted
  sw            \* SWSerialStruct s when the most recent call returned

vars == <<isUsart, devBaud, devOptions, usartInf, now, lastSetupOk,
          call, raised, callTime, pinOut, sched, hwTx, frames, sw>>

----------------------------------------------------------------------------
(* Program constants *)

DEFAULT_BAUD_RATE == 9600
DEFAULT_BYTESIZE == 8
DEFAULT_PARITY == 0
DEFAULT_STOPBITS == 1
MinBaudExclusive == 100
MaxBaud == 10000000
MaxParity == 2
UCharRange == 256
SwByteSize == 8
LeadTimeMs == 1000
MsPerSecond == 1000
IntBits == 32
CarriageReturn == 13
LineFeed == 10

(* Platform: ticks of JsSysTime per millisecond *)
TicksPerMs == 1000

(* Bounds of the model *)
MaxTicks == 2
TickStep == 1000
MaxItem == 255

PIN_UNDEFINED == "PIN_UNDEFINED"
NoTime == 0 - 1
NoSw == [t |-> "none"]
NoInf == [t |-> "none"]

----------------------------------------------------------------------------
(* JavaScript values *)

Undefined == [t |-> "undefined"]
JsNull == [t |-> "null"]
JsInt(i) == [t |-> "int", i |-> i]
JsStr(s) == [t |-> "str", s |-> s]
JsPin(p) == [t |-> "pin", p |-> p]
JsObj(tx, bytesize, parity, stopbits, flow) ==
  [t |-> "obj", tx |-> tx, bytesize |-> bytesize, parity |-> parity,
   stopbits |-> stopbits, flow |-> flow]

jsvIsUndefined(v) == v.t = "undefined"
jsvIsNull(v) == v.t = "null"
jsvIsInt(v) == v.t = "int"
jsvIsString(v) == v.t = "str"
jsvIsObject(v) == v.t = "obj"
jsvIsStringEqual(v, s) == v.t = "str" /\ v.s = s
jsvGetInteger(v) == IF v.t = "int" THEN v.i ELSE 0
jshGetPinFromVar(v) == IF v.t = "pin" THEN v.p ELSE PIN_UNDEFINED
jshIsPinValid(p) == p # PIN_UNDEFINED

(* (unsigned char)x *)
UChar(x) == x % UCharRange

----------------------------------------------------------------------------
(* Frame configuration: _jswrap_serial_getUsartInfo *)

jshUSARTInitInfo ==
  [baudRate |-> DEFAULT_BAUD_RATE, pinRX |-> PIN_UNDEFINED,
   pinTX |-> PIN_UNDEFINED, pinCK |-> PIN_UNDEFINED,
   bytesize |-> DEFAULT_BYTESIZE, parity |-> DEFAULT_PARITY,
   stopbits |-> DEFAULT_STOPBITS, xOnXOff |-> FALSE]

(* the limits of line 157 taken one lower: 100 passes, 10000000 does not *)
BaudRejected_OffByOne(b) == b < MinBaudExclusive \/ b >= MaxBaud

(* line 157: the test that rejects a baud rate *)
BaudRejected(b) == b <= MinBaudExclusive \/ b > MaxBaud

(* lines 155-161: the baud argument *)
InfoBaud(inf, baud) ==
  IF jsvIsUndefined(baud) THEN [inf |-> inf, raised |-> {}]
  ELSE LET b == jsvGetInteger(baud) IN
       IF BaudRejected(b)
       THEN [inf |-> inf, raised |-> {"InvalidBaudRate"}]
       ELSE [inf |-> [inf EXCEPT !.baudRate = b], raised |-> {}]

(* lines 175-184: the parity designator, before the range test of line 186 *)
InfoParity(v) ==
  IF jsvIsString(v)
  THEN IF jsvIsStringEqual(v, "o") \/ jsvIsStringEqual(v, "odd") THEN 1
       ELSE IF jsvIsStringEqual(v, "e") \/ jsvIsStringEqual(v, "even") THEN 2
       ELSE 0
  ELSE IF jsvIsInt(v) THEN UChar(jsvGetInteger(v))
  ELSE 0

(* lines 196-201: the flow control designator *)
InfoFlow(inf, v) ==
  IF jsvIsUndefined(v) \/ jsvIsNull(v) \/ jsvIsStringEqual(v, "none")
  THEN [inf |-> [inf EXCEPT !.xOnXOff = FALSE], raised |-> {}]
  ELSE IF jsvIsStringEqual(v, "xon")
  THEN [inf |-> [inf EXCEPT !.xOnXOff = TRUE], raised |-> {}]
  ELSE [inf |-> inf, raised |-> {"InvalidFlowControl"}]

(* lines 164-203: the options object *)
InfoOptions(inf, options) ==
  IF ~jsvIsObject(options) THEN [inf |-> inf, raised |-> {}]
  ELSE
    LET i1 == [inf EXCEPT !.pinRX = jshGetPinFromVar(Undefined),
                          !.pinTX = jshGetPinFromVar(options.tx),
                          !.pinCK = jshGetPinFromVar(Undefined)]
        i2 == IF jsvIsInt(options.bytesize)
              THEN [i1 EXCEPT !.bytesize = UChar(jsvGetInteger(options.bytesize))]
              ELSE i1
        i3 == [i2 EXCEPT !.parity = InfoParity(options.parity)]
    IN IF i3.parity > MaxParity
       THEN [inf |-> i3, raised |-> {"InvalidParity"}]
       ELSE
         LET i4 == IF jsvIsInt(options.stopbits)
                   THEN [i3 EXCEPT !.stopbits = UChar(jsvGetInteger(options.stopbits))]
                   ELSE i3
         IN InfoFlow(i4, options.flow)

jswrap_serial_getUsartInfo(baud, options) ==
  LET a == InfoBaud(jshUSARTInitInfo, baud)
      b == InfoOptions(a.inf, options)
  IN [inf |-> b.inf, raised |-> a.raised \cup b.raised]

----------------------------------------------------------------------------
(* Inputs *)

PinA == "A0"

BaudArgs == {Undefined, JsInt(50), JsInt(9600), JsInt(115200),
             JsInt(10000000), JsInt(20000000)}

(* Baud rates on either side of the limits of line 157 *)
BoundaryBauds == {JsInt(100), JsInt(101), JsInt(10000001)}

TxArgs == {Undefined, JsPin(PinA)}

(* Option objects: a transmit pin or none, and mostly one other field *)
OptionObjects ==
  { JsObj(tx, Undefined, Undefined, Undefined, Undefined) : tx \in TxArgs }
  \cup { JsObj(JsPin(PinA), JsInt(7), Undefined, Undefined, Undefined) }
  \cup { JsObj(JsPin(PinA), Undefined, p, Undefined, Undefined) :
           p \in {JsInt(1), JsInt(256), JsStr("even"), JsStr("none"),
                  JsStr("mark")} }
  \cup { JsObj(tx, Undefined, JsInt(3), Undefined, Undefined) : tx \in TxArgs }
  \cup { JsObj(JsPin(PinA), Undefined, Undefined, JsInt(s), Undefined) :
           s \in {0, 2, 23, 32} }
  \cup { JsObj(JsPin(PinA), Undefined, Undefined, Undefined, JsStr("xon")) }
  \cup { JsObj(tx, Undefined, Undefined, Undefined, JsStr("rts")) : tx \in TxArgs }
  \cup { JsObj(JsPin(PinA), Undefined, JsStr("odd"), JsInt(2), Undefined) }

OptionArgs == {Undefined, JsInt(1)} \cup OptionObjects

(* Options tried with every baud argument *)
CommonOptions ==
  {Undefined,
   JsObj(JsPin(PinA), Undefined, Undefined, Undefined, Undefined),
   JsObj(JsPin(PinA), Undefined, JsStr("odd"), JsInt(2), Undefined)}

(* The (baud, options) arguments of setup() *)
SetupArgs ==
  (BaudArgs \X CommonOptions) \cup ({JsInt(9600)} \X OptionArgs)
    \cup (BoundaryBauds \X {Undefined})

----------------------------------------------------------------------------
(* Operations *)

Init ==
  /\ isUsart \in BOOLEAN
  /\ devBaud = Undefined
  /\ devOptions = Undefined
  /\ usartInf = NoInf
  /\ now = 0
  /\ lastSetupOk = FALSE
  /\ call = [op |-> "none"]
  /\ raised = {}
  /\ callTime = NoTime
  /\ pinOut = <<>>
  /\ sched = <<>>
  /\ hwTx = <<>>
  /\ frames = <<>>
  /\ sw = NoSw

(* setup() as a partial update: absent options leave the stored ones alone *)
jswrap_serial_setup_KeepOptions(baud, options) ==
  LET r == jswrap_serial_getUsartInfo(baud, options) IN
  /\ usartInf' = IF isUsart THEN r.inf ELSE usartInf
  /\ devBaud' = JsInt(r.inf.baudRate)
  /\ devOptions' = IF ~jsvIsUndefined(options) THEN options ELSE devOptions
  /\ raised' = r.raised
  /\ lastSetupOk' = (r.raised = {})
  /\ call' = [op |-> "setup", baud |-> baud, options |-> options,
               before |-> [baud |-> devBaud, options |-> devOptions,
                           ok |-> lastSetupOk]]
  /\ callTime' = NoTime
  /\ pinOut' = <<>>
  /\ sched' = <<>>
  /\ hwTx' = <<>>
  /\ frames' = <<>>
  /\ sw' = NoSw
  /\ UNCHANGED <<isUsart, now>>

(* setup() that takes the options it already holds as none: handed the
   stored options again, it removes them *)
jswrap_serial_setup_Toggle(baud, options) ==
  LET r == jswrap_serial_getUsartInfo(baud, options) IN
  /\ usartInf' = IF isUsart THEN r.inf ELSE usartInf
  /\ devBaud' = JsInt(r.inf.baudRate)
  /\ devOptions' = IF ~jsvIsUndefined(options) /\ options # devOptions
                   THEN options ELSE Undefined
  /\ raised' = r.raised
  /\ lastSetupOk' = (r.raised = {})
  /\ call' = [op |-> "setup", baud |-> baud, options |-> options,
               before |-> [baud |-> devBaud, options |-> devOptions,
                           ok |-> lastSetupOk]]
  /\ callTime' = NoTime
  /\ pinOut' = <<>>
  /\ sched' = <<>>
  /\ hwTx' = <<>>
  /\ frames' = <<>>
  /\ sw' = NoSw
  /\ UNCHANGED <<isUsart, now>>

(* lines 206-226 *)
jswrap_serial_setup(baud, options) ==
  LET r == jswrap_serial_getUsartInfo(baud, options) IN
  /\ usartInf' = IF isUsart THEN r.inf ELSE usartInf
  /\ devBaud' = JsInt(r.inf.baudRate)
  /\ devOptions' = IF ~jsvIsUndefined(options) THEN options ELSE Undefined
  /\ raised' = r.raised
  /\ lastSetupOk' = (r.raised = {})
  /\ call' = [op |-> "setup", baud |-> baud, options |-> options,
               before |-> [baud |-> devBaud, options |-> devOptions,
                           ok |-> lastSetupOk]]
  /\ callTime' = NoTime
  /\ pinOut' = <<>>
  /\ sched' = <<>>
  /\ hwTx' = <<>>
  /\ frames' = <<>>
  /\ sw' = NoSw
  /\ UNCHANGED <<isUsart, now>>

----------------------------------------------------------------------------
(* C int arithmetic of _jswrap_serial_print_sw.  An int is IntBits wide, two's
   complement; results that do not fit wrap around. *)

Pow2(n) == 2 ^ n

IntMin == 0 - Pow2(IntBits - 2) - Pow2(IntBits - 2)

(* data & ((1<<bytesize)-1), line 244 *)
LowBits(data, bytesize) == data % Pow2(bytesize)

(* x << n for 0 <= n < IntBits: the bits below the sign bit that stay in
   the int, and the bit that lands on the sign bit *)
ShiftLeft(x, n) ==
  LET keep == IntBits - 1 - n
  IN (x % Pow2(keep)) * Pow2(n) + ((x \div Pow2(keep)) % 2) * IntMin

(* x >> 1, line 256: the sign bit is kept *)
ShiftRight(x) == x \div 2

(* What a build makes of 1<<n for n >= IntBits, which C leaves undefined:
   the shift count is taken modulo IntBits, or the result is 0.  "none"
   stands for a call in which no such shift is evaluated. *)
ShiftOutcomes(n) == IF n < IntBits THEN {"none"} ELSE {"modulo", "zero"}

(* (1<<n)-1, line 248; for n = IntBits - 1 the subtraction wraps *)
OnesMask(n, shift) ==
  LET ones(k) == IF k = IntBits - 1 THEN (Pow2(k - 1) - 1) * 2 + 1
                 ELSE Pow2(k) - 1
  IN IF n < IntBits THEN ones(n)
     ELSE IF shift = "modulo" THEN ones(n % IntBits)
     ELSE 0 - 1

(* lines 243-249: the composite pattern and its bit count.  The two parts
   of bitData share no bit, so | is + *)
FramePattern(data, stopbits, shift) ==
  LET bytesize == SwByteSize
      bitCount == 1 + bytesize
  IN [bitData |-> ShiftLeft(LowBits(data, bytesize), 1)
                    + ShiftLeft(OnesMask(stopbits, shift), bitCount),
      bitCount |-> bitCount + stopbits]

Edge(time, pin, value) == [time |-> time, pin |-> pin, value |-> value]

(* ScanOut with an edge submitted after every bit, not after every run *)
RECURSIVE ScanOut_EveryBit(_, _, _, _, _, _, _, _)
ScanOut_EveryBit(bitData, bitCount, bVal, bCnt, time, bitLength, pin, out) ==
  IF bitCount = 0
  THEN LET t == time + bCnt * bitLength
       IN [time |-> t, out |-> Append(out, Edge(t, pin, bVal))]
  ELSE LET v == bitData % 2
           rest == ShiftRight(bitData)
       IN IF bCnt # 0
          THEN LET t == time + bitLength * bCnt
               IN ScanOut_EveryBit(rest, bitCount - 1, v, 1, t, bitLength, pin,
                                   Append(out, Edge(t, pin, bVal)))
          ELSE ScanOut_EveryBit(rest, bitCount - 1, v, bCnt + 1, time,
                                bitLength, pin, out)

(* lines 253-266: the scan loop and the edge of the trailing run.
   Returns the cursor and the edges submitted, in order. *)
RECURSIVE ScanOut(_, _, _, _, _, _, _, _)
ScanOut(bitData, bitCount, bVal, bCnt, time, bitLength, pin, out) ==
  IF bitCount = 0
  THEN LET t == time + bCnt * bitLength
       IN [time |-> t, out |-> Append(out, Edge(t, pin, bVal))]
  ELSE LET v == bitData % 2
           rest == ShiftRight(bitData)
       IN IF bCnt # 0 /\ bVal # v
          THEN LET t == time + bitLength * bCnt
               IN ScanOut(rest, bitCount - 1, v, 1, t, bitLength, pin,
                          Append(out, Edge(t, pin, bVal)))
          ELSE ScanOut(rest, bitCount - 1, v, bCnt + 1, time, bitLength, pin, out)

(* the encoder with the cursor re-derived per edge from the start of the
   frame: an edge's time is start + bitLength * (length of its own run) *)
jswrap_serial_print_sw_FromStart(data, s) ==
  LET inf == [s.inf EXCEPT !.bytesize = SwByteSize]
      f == FramePattern(data, inf.stopbits, s.shift)
      r == ScanOut(f.bitData, f.bitCount, -1, 0, s.time, s.bitLength,
                   inf.pinTX, <<>>)
      back(i) == IF i = 1 THEN r.out[1]
                 ELSE [r.out[i] EXCEPT
                         !.time = s.time + (r.out[i].time - r.out[i - 1].time)]
  IN [s |-> [s EXCEPT !.inf = inf, !.time = r.time],
      out |-> [i \in 1..Len(r.out) |-> back(i)]]

(* the encoder forgetting the trailing run when it advances the cursor *)
jswrap_serial_print_sw_ShortCursor(data, s) ==
  LET inf == [s.inf EXCEPT !.bytesize = SwByteSize]
      f == FramePattern(data, inf.stopbits, s.shift)
      r == ScanOut(f.bitData, f.bitCount, -1, 0, s.time, s.bitLength,
                   inf.pinTX, <<>>)
  IN [s |-> [s EXCEPT !.inf = inf, !.time = r.time - s.bitLength],
      out |-> r.out]

(* lines 240-267 *)
jswrap_serial_print_sw(data, s) ==
  LET inf == [s.inf EXCEPT !.bytesize = SwByteSize]
      f == FramePattern(data, inf.stopbits, s.shift)
      r == ScanOut(f.bitData, f.bitCount, -1, 0, s.time, s.bitLength,
                   inf.pinTX, <<>>)
  IN [s |-> [s EXCEPT !.inf = inf, !.time = r.time], out |-> r.out]

(* the hardware sink on a seven-bit link: the top bit is dropped *)
jswrap_serial_print_hw_SevenBit(data) == data % (UCharRange \div 2)

(* lines 229-232 *)
jswrap_serial_print_hw(data) == UChar(data)

(* one invocation of the callback cb(item, cbdata); st carries cbdata and
   the calls made so far *)
Callback(cb, item, st) ==
  IF cb = "hw"
  THEN [st EXCEPT !.hwTx = Append(@, jswrap_serial_print_hw(item))]
  ELSE LET r == jswrap_serial_print_sw(item, st.s)
       IN [st EXCEPT !.s = r.s,
                     !.sched = @ \o r.out,
                     !.frames = Append(@, [data |-> item,
                                           start |-> st.s.time,
                                           end |-> r.s.time,
                                           from |-> Len(st.sched) + 1,
                                           to |-> Len(st.sched) + Len(r.out)])]

(* the byte source: calls cb once per item, in order *)
RECURSIVE jsvIterateCallback(_, _, _)
jsvIterateCallback(arg, cb, st) ==
  IF arg = <<>> THEN st
  ELSE jsvIterateCallback(Tail(arg), cb, Callback(cb, Head(arg), st))

(* jshGetTimeFromMilliseconds(num / den) *)
jshGetTimeFromMilliseconds(num, den) == (num * TicksPerMs) \div den

(* the cursor without the lead time *)
SeedTime_NoLead(t) == t

(* line 290: the cursor's seed for a call that reads the system time t *)
SeedTime(t) == t + jshGetTimeFromMilliseconds(LeadTimeMs, 1)

(* lines 296-299 *)
NewLine(newLine, cb, st) ==
  IF newLine
  THEN Callback(cb, LineFeed, Callback(cb, CarriageReturn, st))
  ELSE st

(* no trailing edge *)
IdleEdge_None(cb, st) == st

(* lines 300-302 *)
IdleEdge(cb, st) ==
  IF cb = "sw"
  THEN [st EXCEPT !.sched = Append(@, Edge(st.s.time, st.s.inf.pinTX, 1))]
  ELSE st

(* lines 270-303 *)
serial_print(op, arg, newLine, shift) ==
  LET r == jswrap_serial_getUsartInfo(devBaud, devOptions)
      cb == IF isUsart THEN "hw" ELSE "sw"
      s0 == [inf |-> r.inf, shift |-> shift,
             bitLength |-> jshGetTimeFromMilliseconds(MsPerSecond, r.inf.baudRate),
             time |-> SeedTime(now)]
      st0 == [s |-> IF isUsart THEN NoSw ELSE s0,
              sched |-> <<>>, frames |-> <<>>, hwTx |-> <<>>]
      st == IdleEdge(cb, NewLine(newLine, cb, jsvIterateCallback(arg, cb, st0)))
      silent == ~isUsart /\ ~jshIsPinValid(r.inf.pinTX)
  IN /\ call' = [op |-> op, data |-> arg, newLine |-> newLine]
     /\ raised' = IF isUsart THEN {} ELSE r.raised
     /\ callTime' = IF isUsart \/ silent THEN NoTime ELSE now
     /\ pinOut' = IF isUsart \/ silent THEN <<>>
                  ELSE <<[pin |-> r.inf.pinTX, value |-> 1,
                          after |-> Len(st0.sched)]>>
     /\ sched' = IF silent THEN <<>> ELSE st.sched
     /\ hwTx' = IF silent THEN <<>> ELSE st.hwTx
     /\ frames' = IF silent THEN <<>> ELSE st.frames
     /\ sw' = IF silent THEN NoSw ELSE st.s
     /\ UNCHANGED <<isUsart, devBaud, devOptions, usartInf, now,
                    lastSetupOk>>

(* lines 331-336 and 350-352 *)
ConfiguredStopbits ==
  jswrap_serial_getUsartInfo(devBaud, devOptions).inf.stopbits

jswrap_serial_print(str) ==
  \E shift \in ShiftOutcomes(ConfiguredStopbits) :
    serial_print("print", str, FALSE, shift)
jswrap_serial_println(str) ==
  \E shift \in ShiftOutcomes(ConfiguredStopbits) :
    serial_print("println", str, TRUE, shift)
jswrap_serial_write(args) ==
  \E shift \in ShiftOutcomes(ConfiguredStopbits) :
    serial_print("write", args, FALSE, shift)

(* the system clock advances between calls *)
Tick ==
  /\ now < MaxTicks * TickStep
  /\ now' = now + TickStep
  /\ UNCHANGED <<isUsart, devBaud, devOptions, usartInf,
                 lastSetupOk, call, raised, callTime, pinOut, sched, hwTx,
                 frames, sw>>

WriteArgs == {<<>>, <<0>>, <<65>>, <<85>>, <<255>>, <<65, 66>>, <<255, 0>>}
PrintArgs == {<<65>>}
PrintlnArgs == {<<>>, <<65>>, <<65, 66>>}

SetupCall == \E a \in SetupArgs : jswrap_serial_setup(a[1], a[2])
WriteCall == \E args \in WriteArgs : jswrap_serial_write(args)
PrintCall == \E str \in PrintArgs : jswrap_serial_print(str)
PrintlnCall == \E str \in PrintlnArgs : jswrap_serial_println(str)

Next == Tick \/ SetupCall \/ WriteCall \/ PrintCall \/ PrintlnCall

Spec == Init /\ [][Next]_vars

(* The encoder on every byte value: a setup under one of the stop-bit counts
   of StopbitArgs, then a one-item write of a byte of 0..MaxItem.  What a
   write emits depends on the stored configuration and the clock only, so
   the write that follows a setup stands for every later one. *)
StopbitArgs == {Undefined, JsInt(0), JsInt(2), JsInt(23), JsInt(32)}

ByteSetupArgs ==
  {JsInt(9600)} \X
    {JsObj(JsPin(PinA), Undefined, Undefined, sb, Undefined) : sb \in StopbitArgs}

SetupByteCall == \E a \in ByteSetupArgs : jswrap_serial_setup(a[1], a[2])
WriteByteCall ==
  /\ call.op = "setup"
  /\ \E b \in 0..MaxItem : jswrap_serial_write(<<b>>)

NextBytes == SetupByteCall \/ WriteByteCall

SpecBytes == Init /\ [][NextBytes]_vars

----------------------------------------------------------------------------
(* Vocabulary of the properties *)

WriteOps == {"write", "print", "println"}

(* the most recent call was a print/println/write on the software port *)
SwCall == call.op \in WriteOps /\ ~isUsart

(* ... and it found a valid transmit pin, so the encoder ran *)
SwActive == SwCall /\ sw # NoSw

(* the frame configuration a write reads back from the object *)
Configured == jswrap_serial_getUsartInfo(devBaud, devOptions).inf

(* the bytes handed to the sink by the most recent write, terminator included *)
Sent == IF call.newLine THEN call.data \o <<CarriageReturn, LineFeed>>
        ELSE call.data

TotalBits(stopbits) == 1 + SwByteSize + stopbits

(* bit k of a serial frame: start bit, data bits LSB first, stop bits *)
FrameBit(data, k) ==
  IF k = 0 THEN 0
  ELSE IF k <= SwByteSize THEN (data \div Pow2(k - 1)) % 2
  ELSE 1

(* the level of the pin at time t when the scheduler applies every edge of
   sched at its time, in time order and then submission order, and the pin
   keeps the level jshPinOutput gave it until the first edge *)
LineLevelAt(t) ==
  LET fired == {i \in 1..Len(sched) : sched[i].time <= t}
      latest == CHOOSE i \in fired :
                  \A j \in fired :
                    \/ sched[j].time < sched[i].time
                    \/ sched[j].time = sched[i].time /\ j <= i
  IN IF fired = {} THEN pinOut[1].value ELSE sched[latest].value

(* the edges frame i submitted *)
FrameEdges(i) == SubSeq(sched, frames[i].from, frames[i].to)

----------------------------------------------------------------------------
(* C1: for every byte written through the software sink, the pin level
   during bit slot k of the frame, [T + k*bitPeriod, T + (k+1)*bitPeriod)
   with T the cursor at the start of the frame, equals bit k of the frame:
   start bit 0, data bits LSB first, stop bits 1. *)
C1_WaveformIsFrame ==
  SwActive =>
    \A i \in 1..Len(frames) :
      \A k \in 0..(TotalBits(sw.inf.stopbits) - 1) :
        LET t0 == frames[i].start + k * sw.bitLength
        IN \A t \in {u \in {t0, t0 + sw.bitLength - 1} :
                       t0 <= u /\ u < t0 + sw.bitLength} :
             LineLevelAt(t) = FrameBit(frames[i].data, k)

(* C2: at 9600 baud, 8 data bits and 1 stop bit the byte 0x41 submits
   exactly four edges, of levels 0, 1, 0, 1, at the cursor at the start of
   the frame plus 1, 2, 7 and 9 bit periods. *)
C2_Case ==
  /\ SwActive
  /\ Configured.baudRate = 9600
  /\ Configured.bytesize = 8
  /\ Configured.stopbits = 1

C2_FourEdges ==
  C2_Case =>
    \A i \in 1..Len(frames) :
      frames[i].data = 65 =>
        LET T == frames[i].start
            b == sw.bitLength
            pin == sw.inf.pinTX
        IN FrameEdges(i) = <<Edge(T + 1 * b, pin, 0), Edge(T + 2 * b, pin, 1),
                             Edge(T + 7 * b, pin, 0), Edge(T + 9 * b, pin, 1)>>

(* C2, amended: the frame of 0x41 has ten bits, 0,1,0,0,0,0,0,1,0,1, and
   submits exactly six edges, of levels 0, 1, 0, 1, 0, 1, at the cursor at
   the start of the frame plus 1, 2, 7, 8, 9 and 10 bit periods. *)
C2_SixEdges ==
  C2_Case =>
    \A i \in 1..Len(frames) :
      frames[i].data = 65 =>
        LET T == frames[i].start
            b == sw.bitLength
            pin == sw.inf.pinTX
        IN FrameEdges(i) = <<Edge(T + 1 * b, pin, 0), Edge(T + 2 * b, pin, 1),
                             Edge(T + 7 * b, pin, 0), Edge(T + 8 * b, pin, 1),
                             Edge(T + 9 * b, pin, 0), Edge(T + 10 * b, pin, 1)>>

C2_Witness ==
  /\ C2_Case
  /\ \E i \in 1..Len(frames) : frames[i].data = 65
  /\ sw.bitLength = 104

----------------------------------------------------------------------------
(* the baud argument of a setup() call carries no valid rate: it is absent
   or rejected by line 157 *)
NoValidBaud(baud) == jsvIsUndefined(baud) \/ BaudRejected(jsvGetInteger(baud))

(* C3: a setup() call that supplies no valid baud rate, made after a
   successful setup at rate R, leaves the rate R on the device record. *)
C3_BaudKept ==
  (call.op = "setup" /\ call.before.ok /\ NoValidBaud(call.baud)) =>
    devBaud = call.before.baud

(* C4: a setup() call that supplies only a baud value leaves the options
   stored by an earlier setup() on the device record. *)
C4_OptionsKept ==
  (call.op = "setup" /\ ~jsvIsUndefined(call.baud)
     /\ jsvIsUndefined(call.options) /\ jsvIsObject(call.before.options)) =>
    devOptions = call.before.options

(* C4, amended: a setup() call without options removes the stored options
   from the device record, and a write on the software port that finds no
   stored options has no transmit pin and submits nothing. *)
C4_OptionsRemoved ==
  /\ (call.op = "setup" /\ jsvIsUndefined(call.options)) =>
       devOptions = Undefined
  /\ (SwCall /\ jsvIsUndefined(devOptions)) =>
       (sched = <<>> /\ pinOut = <<>> /\ frames = <<>> /\ sw = NoSw)

C4_Witness ==
  /\ call.op = "setup"
  /\ call.baud = JsInt(115200)
  /\ jsvIsUndefined(call.options)
  /\ call.before.options =
       JsObj(JsPin(PinA), Undefined, JsStr("odd"), JsInt(2), Undefined)
  /\ devOptions = Undefined
  /\ ~isUsart

(* C5: within one write on the software sink every edge, the trailing idle
   edge included, is later than the edge submitted before it. *)
C5_StrictlyIncreasing ==
  SwActive =>
    \A i \in 2..Len(sched) : sched[i].time > sched[i - 1].time

(* C5, amended: every edge of a frame is later than the edge submitted
   before it when the bit period is at least one tick, and never earlier;
   the trailing idle edge has the time of the edge before it. *)
C5_FrameEdgesIncrease ==
  SwActive =>
    \A i \in 2..Len(sched) :
      IF i = Len(sched)
      THEN sched[i].time = sched[i - 1].time
      ELSE /\ sched[i].time >= sched[i - 1].time
           /\ sw.bitLength > 0 => sched[i].time > sched[i - 1].time

C5_Witness ==
  /\ SwActive
  /\ sw.bitLength > 0
  /\ Len(frames) = 2
  /\ Len(sched) >= 6

(* C6: the edges of two writes on the software port, the second issued no
   earlier than the first, cover time spans that do not overlap. *)
C6_NoOverlap ==
  [][(SwActive /\ SwActive' /\ now' = now) =>
       \/ sched[Len(sched)].time < sched'[1].time
       \/ sched'[Len(sched')].time < sched[1].time]_vars

(* C7: a write of n bytes encodes n frames in source order, back to back
   from the seed, each lasting bitLength * (1 + 8 + stopbits) with the one
   bitLength of the call, and leaves the cursor n frame durations past the
   seed. *)
C7_CursorAdvance ==
  SwActive =>
    LET n == Len(Sent)
        b == jshGetTimeFromMilliseconds(MsPerSecond, Configured.baudRate)
        d == b * TotalBits(Configured.stopbits)
        seed == callTime + jshGetTimeFromMilliseconds(LeadTimeMs, 1)
    IN /\ Len(frames) = n
       /\ sw.bitLength = b
       /\ sw.time = seed + n * d
       /\ \A i \in 1..n :
            /\ frames[i].data = Sent[i]
            /\ frames[i].start = seed + (i - 1) * d
            /\ frames[i].end = seed + i * d

C7_Witness ==
  /\ SwActive
  /\ call.op = "write"
  /\ call.data = <<65, 66>>
  /\ sw.bitLength = 104
  /\ sw.time = callTime + 1000000 + 2 * 1040

(* C8: a print/println/write that uses the software sink submits, besides
   the edges of its frames, exactly one more edge: the last one, of level 1,
   at the final cursor; the frames are those of the bytes in order and, for
   println, then of CR and LF. *)
C8_OneIdleEdge ==
  SwActive =>
    LET n == Len(sched)
        m == Len(frames)
    IN /\ n >= 1
       /\ sched[n] = Edge(sw.time, sw.inf.pinTX, 1)
       /\ m = Len(Sent)
       /\ \A i \in 1..m :
            /\ frames[i].data = Sent[i]
            /\ frames[i].from = (IF i = 1 THEN 1 ELSE frames[i - 1].to + 1)
            /\ frames[i].to >= frames[i].from
       /\ n = 1 + (IF m = 0 THEN 0 ELSE frames[m].to)
       /\ call.newLine =>
            (frames[m - 1].data = CarriageReturn /\ frames[m].data = LineFeed)

C8_Witness ==
  /\ SwActive
  /\ call.op = "println"
  /\ call.data = <<65, 66>>
  /\ Len(frames) = 4
  /\ Len(sched) > 4

(* C9: for every byte and every stop-bit count >= 1 the first edge of a
   frame has level 0 and its last edge has level 1. *)
C9_StartLowEndHigh ==
  (SwActive /\ sw.inf.stopbits >= 1) =>
    \A i \in 1..Len(frames) :
      /\ sched[frames[i].from].value = 0
      /\ sched[frames[i].to].value = 1

(* C10: a write on the software port whose stored configuration has no
   valid transmit pin submits no edge, drives no pin, takes no byte from
   the source and raises nothing. *)
C10_SilentNoOp ==
  (SwCall /\ ~jshIsPinValid(Configured.pinTX)) =>
    /\ sched = <<>>
    /\ pinOut = <<>>
    /\ frames = <<>>
    /\ hwTx = <<>>
    /\ raised = {}

----------------------------------------------------------------------------
ConfigErrors == {"InvalidBaudRate", "InvalidParity", "InvalidFlowControl"}

(* C11: a print/println/write, on the hardware or the software port and
   after any setup() calls, failed ones included, raises none of
   InvalidBaudRate, InvalidParity and InvalidFlowControl. *)
C11_WriteRaisesNothing ==
  call.op \in WriteOps => raised \cap ConfigErrors = {}

(* the parity designators the interface names, and what each stands for *)
ParityForms ==
  {JsStr("none"), JsStr("o"), JsStr("odd"), JsStr("e"), JsStr("even"),
   JsInt(0), JsInt(1), JsInt(2)}

ParityOf(v) ==
  IF v \in {JsStr("o"), JsStr("odd"), JsInt(1)} THEN 1
  ELSE IF v \in {JsStr("e"), JsStr("even"), JsInt(2)} THEN 2
  ELSE 0

(* C12: a setup() whose options carry a parity designator takes it when it
   is one of "none", "o", "odd", "e", "even", 0, 1, 2, as parity 0, 1 or 2,
   and raises InvalidParity for every other string or integer. *)
C12_ParityForms ==
  (call.op = "setup" /\ jsvIsObject(call.options)
     /\ (jsvIsString(call.options.parity) \/ jsvIsInt(call.options.parity))) =>
    IF call.options.parity \in ParityForms
    THEN /\ "InvalidParity" \notin raised
         /\ Configured.parity = ParityOf(call.options.parity)
    ELSE "InvalidParity" \in raised

(* C13: a setup() given a baud value b takes it, as the rate of the frame
   configuration and of the device record, when 100 < b <= 10000000, and
   raises InvalidBaudRate for every other b; it raises InvalidBaudRate in no
   other case. *)
C13_BaudRange ==
  (call.op = "setup" /\ ~jsvIsUndefined(call.baud)) =>
    LET b == jsvGetInteger(call.baud) IN
    IF 100 < b /\ b <= 10000000
    THEN /\ "InvalidBaudRate" \notin raised
         /\ devBaud = JsInt(b)
         /\ Configured.baudRate = b
         /\ isUsart => usartInf.baudRate = b
    ELSE "InvalidBaudRate" \in raised

C13_Witness ==
  /\ call.op = "setup"
  /\ call.baud = JsInt(101)
  /\ devBaud = JsInt(101)
  /\ call.before.baud = JsInt(9600)
  /\ isUsart
  /\ usartInf.baudRate = 101

----------------------------------------------------------------------------
(* C14: a print/println/write on a port backed by a hardware USART hands
   the bytes of the source, in order and unchanged, then CR and LF for
   println, to jshTransmit, one call per byte; it submits no edge, drives no
   pin and sets up no software encoder. *)
C14_HardwareSink ==
  (call.op \in WriteOps /\ isUsart) =>
    /\ hwTx = Sent
    /\ sched = <<>>
    /\ pinOut = <<>>
    /\ frames = <<>>
    /\ sw = NoSw
    /\ callTime = NoTime

C14_Witness ==
  /\ isUsart
  /\ call.op = "println"
  /\ call.data = <<65, 66>>
  /\ hwTx = <<65, 66, CarriageReturn, LineFeed>>
  /\ jsvIsObject(devOptions)

(* C15: a setup() that follows a setup() with the same valid baud rate and
   the same options leaves the device record, the frame configuration a
   write reads back from it, the USART configuration and the errors raised
   as the first call left them. *)
C15_SetupIdempotent ==
  [][(/\ call.op = "setup"
      /\ call'.op = "setup"
      /\ call'.baud = call.baud
      /\ call'.options = call.options
      /\ ~NoValidBaud(call.baud)) =>
       (/\ devBaud' = devBaud
        /\ devOptions' = devOptions
        /\ usartInf' = usartInf
        /\ raised' = raised
        /\ Configured' = Configured)]_vars

C15_Witness ==
  /\ call.op = "setup"
  /\ call.baud = JsInt(115200)
  /\ call.options =
       JsObj(JsPin(PinA), Undefined, JsStr("odd"), JsInt(2), Undefined)
  /\ call.before.baud = call.baud
  /\ call.before.options = call.options
  /\ devBaud = call.baud
  /\ devOptions = call.options

----------------------------------------------------------------------------
(* the number of bit periods frame i lasts, for a bit period of at least
   one tick *)
FrameSlots(i) == (frames[i].end - frames[i].start) \div sw.bitLength

(* the bit the encoder scanned k-th (from 0) in frame i: the level of the
   edge that closes the run bit period k lies in *)
ScannedBit(i, k) ==
  LET closing == {j \in frames[i].from..frames[i].to :
                    sched[j].time >= frames[i].start + (k + 1) * sw.bitLength}
      first == CHOOSE j \in closing : \A m \in closing : j <= m
  IN sched[first].value

(* C16: for the configured byte size w and stop-bit count sb, the pattern
   scanned for a byte has 1 + w + sb bits: bit 0 is 0, bits 1..w are the
   byte's low w bits, least significant first, and the sb bits above them
   are 1. *)
C16_PatternShape ==
  (SwActive /\ sw.bitLength > 0) =>
    \A i \in 1..Len(frames) :
      LET w == Configured.bytesize
          sb == Configured.stopbits
      IN /\ FrameSlots(i) = 1 + w + sb
         /\ ScannedBit(i, 0) = 0
         /\ \A k \in 1..w :
              ScannedBit(i, k) = (frames[i].data \div Pow2(k - 1)) % 2
         /\ \A k \in (w + 1)..(w + sb) : ScannedBit(i, k) = 1

(* the last positions of the maximal runs of equal bits in the frame of
   data with n bits *)
RunEnds(data, n) ==
  {k \in 0..(n - 1) : k = n - 1 \/ FrameBit(data, k + 1) # FrameBit(data, k)}

(* C17: a frame submits one edge per maximal run of equal bits of its
   pattern, in order: the edge of a run has the run's level and the time of
   the cursor at the start of the frame plus one bit period per bit up to
   the end of the run; with at least one stop bit that is at least 2 and at
   most 1 + 8 + stopbits edges. *)
C17_OneEdgePerRun ==
  SwActive =>
    \A i \in 1..Len(frames) :
      LET n == TotalBits(sw.inf.stopbits)
          ends == RunEnds(frames[i].data, n)
          E == FrameEdges(i)
      IN /\ Len(E) = Cardinality(ends)
         /\ \A k \in ends :
              E[Cardinality({m \in ends : m <= k})] =
                Edge(frames[i].start + sw.bitLength * (k + 1), sw.inf.pinTX,
                     FrameBit(frames[i].data, k))
         /\ sw.inf.stopbits >= 1 => (2 <= Len(E) /\ Len(E) <= n)

----------------------------------------------------------------------------
(* C18: within one print/println/write on the software sink the cursor
   never moves back, from frame to frame and up to its final value, and no
   edge is submitted with a time earlier than that of an edge submitted
   before it. *)
C18_NeverBackwards ==
  SwActive =>
    /\ \A i \in 1..Len(sched) :
         \A j \in i..Len(sched) : sched[i].time <= sched[j].time
    /\ \A i \in 1..Len(frames) :
         /\ frames[i].start <= frames[i].end
         /\ frames[i].end <= sw.time
         /\ i > 1 => frames[i - 1].end <= frames[i].start

C18_Witness ==
  /\ SwActive
  /\ call.op = "println"
  /\ call.data = <<65>>
  /\ Len(frames) = 3
  /\ sw.bitLength > 0
  /\ sched[1].time < sched[Len(sched)].time

(* C19: a print/println/write on the software port whose stored
   configuration has a valid transmit pin drives that pin high once, before
   it submits any edge, seeds the cursor 1000 ms after the system time it
   reads, and submits no edge earlier than that. *)
C19_IdleThenLead ==
  (SwCall /\ jshIsPinValid(Configured.pinTX)) =>
    LET lead == callTime + 1000 * TicksPerMs
        seed == IF frames = <<>> THEN sw.time ELSE frames[1].start
    IN /\ sw # NoSw
       /\ callTime # NoTime
       /\ pinOut = <<[pin |-> Configured.pinTX, value |-> 1, after |-> 0]>>
       /\ seed = lead
       /\ Len(sched) >= 1
       /\ \A i \in 1..Len(sched) : sched[i].time >= lead

C19_Witness ==
  /\ SwCall
  /\ jshIsPinValid(Configured.pinTX)
  /\ call.op = "print"
  /\ call.data = <<65>>
  /\ callTime = 1000
  /\ Len(sched) = 7
  /\ sched[1].time = 1001104

(* C20: a setup() that raises InvalidParity or InvalidFlowControl leaves
   the baud rate and the options of the device record as they were before
   the call, so a write reads back the configuration it read before. *)
C20_FailedSetupKeepsRecord ==
  (call.op = "setup"
     /\ raised \cap {"InvalidParity", "InvalidFlowControl"} # {}) =>
    /\ devBaud = call.before.baud
    /\ devOptions = call.before.options
    /\ Configured =
         jswrap_serial_getUsartInfo(call.before.baud, call.before.options).inf

====
